---- MODULE Spec2Model ----
(***************************************************************************)
(* Model of esote/chat (src/chat.go): an in-memory store of named rooms,   *)
(* each with a bounded most-recent-first message history, served by HTTP   *)
(* handlers that all run under one mutex, and pruned by a background       *)
(* ticker goroutine and by every GET of a room page.                       *)
(*                                                                         *)
(* Strings (room names, message texts) are sequences of one-character      *)
(* strings.  Times are whole ticks of the UTC wall clock; the zero         *)
(* time.Time is tick 0 and the process starts more than one lifespan after *)
(* it.  The program constants keep their names; their values are scaled    *)
(* down so that the capacity, truncation and eviction cases are reached.   *)
(***************************************************************************)
EXTENDS Integers, Sequences, FiniteSets, TLC

\* ---------------------------------------------------------------- constants
\* const block, chat.go:36-42 (scaled)
maxRoomCount == 1
maxMsgLen == 3
maxMsgsCount == 2
maxNameLen == 2
lifespan == 1

\* one formatted minute ("2006-01-02 15:04") spans this many clock ticks
TicksPerMinute == 2

\* the zero value of time.Time (room.last of a room no message was posted to)
ZeroTime == 0

\* the clock does not advance past MaxTime
MaxTime == 4

StartTime == lifespan + 1

\* ------------------------------------------------------------------- inputs
Handlers == {"h1", "h2"}

\* the requests sent: verb and path without its leading slash
RequestInputs ==
    ({"GET", "PATCH", "POST"} \X { <<"a">>, <<"b">> })
        \cup { <<"GET", <<>> >>, <<"PUT", <<"a">> >>,
               <<"GET", <<"A">> >>, <<"GET", <<"a", "b", "a">> >> }

MsgInputs ==
    { <<"a">>, <<"b">>, <<"<">>,
      <<" ", "a">>, <<"b", "\r">>,
      <<>>, <<" ">>, <<"a", "\t", "b">>,
      <<"a", "b", "a", "b">> }

\* the posted form: unparsable, or parsed with its "msg" value
FormInputs ==
    { [ok |-> FALSE, msg |-> <<>>] } \cup { [ok |-> TRUE, msg |-> m] : m \in MsgInputs }

NoForm == [ok |-> FALSE, msg |-> <<"-">>]

VARIABLES
    rooms,      \* the store: room name -> [msgs, last]
    now,        \* the wall clock
    lock,       \* "" when free, else the holder
    pc,         \* handler -> where its request is
    req,        \* handler -> the request it serves
    resp,       \* handler -> the response written so far
    spc,        \* where the ticker goroutine is
    snap,       \* the store as it was when the lock holder acquired the lock
    lastRead,   \* the most recent read served since the last POST or ticker sweep
    proc        \* the process: "running", "signalled" (os.Interrupt), "exited"

vars == <<rooms, now, lock, pc, req, resp, spc, snap, lastRead, proc>>

\* ------------------------------------------------------------------ strings
Take(s, n) == SubSeq(s, 1, IF Len(s) < n THEN Len(s) ELSE n)

\* regexp ^[a-z]*$
LowerCase == {"a", "b", "c"}
validName(name) == \A i \in 1..Len(name) : name[i] \in LowerCase

\* regexp ^[[:print:]]+$
Printable == {" ", "a", "b", "c", "l", "t", "m", "p", "g", "q", ";", "#",
              "3", "4", "9", "<", ">", "&", "'", "\""}
validMsgAny(str) == TRUE

validMsg(str) == Len(str) >= 1 /\ \A i \in 1..Len(str) : str[i] \in Printable

\* strings.Replace(str, "\r", "", -1)
IsNotCR(c) == c # "\r"
RemoveCR(str) == SelectSeq(str, IsNotCR)

\* strings.TrimSpace
IsSpace(c) == c \in {" ", "\t", "\n", "\r"}

RECURSIVE TrimLeft(_)
TrimLeft(str) ==
    IF str # <<>> /\ IsSpace(Head(str)) THEN TrimLeft(Tail(str)) ELSE str

RECURSIVE TrimRight(_)
TrimRight(str) ==
    IF str # <<>> /\ IsSpace(str[Len(str)])
    THEN TrimRight(SubSeq(str, 1, Len(str) - 1))
    ELSE str

TrimSpace(str) == TrimRight(TrimLeft(str))

EscapeCharTwice(c) ==
    CASE c = "&"  -> <<"&", "a", "m", "p", ";", "a", "m", "p", ";">>
      [] c = "'"  -> <<"&", "a", "m", "p", ";", "#", "3", "9", ";">>
      [] c = "<"  -> <<"&", "a", "m", "p", ";", "l", "t", ";">>
      [] c = ">"  -> <<"&", "a", "m", "p", ";", "g", "t", ";">>
      [] c = "\"" -> <<"&", "a", "m", "p", ";", "#", "3", "4", ";">>
      [] OTHER    -> <<c>>

\* html.EscapeString
EscapeChar(c) ==
    CASE c = "&"  -> <<"&", "a", "m", "p", ";">>
      [] c = "'"  -> <<"&", "#", "3", "9", ";">>
      [] c = "<"  -> <<"&", "l", "t", ";">>
      [] c = ">"  -> <<"&", "g", "t", ";">>
      [] c = "\"" -> <<"&", "#", "3", "4", ";">>
      [] OTHER    -> <<c>>

RECURSIVE EscapeString(_)
EscapeString(str) ==
    IF str = <<>> THEN <<>> ELSE EscapeChar(Head(str)) \o EscapeString(Tail(str))

\* time.Format("2006-01-02 15:04"): the time cut to the minute
Format(t) == t \div TicksPerMinute

\* --------------------------------------------------------------- responses
Resp(code, err, msgs, loc, csp) ==
    [code |-> code, err |-> err, msgs |-> msgs, loc |-> loc, csp |-> csp]

NoResp == Resp(0, "", <<>>, <<>>, "")

NoReq == [method |-> "", name |-> <<>>, form |-> NoForm]

NoRead == [name |-> <<>>, msgs |-> <<>>, evicted |-> FALSE, again |-> FALSE]

\* the record of a read of name that returned msgs, after the read recorded in last
Read(last, name, msgs) ==
    [name |-> name, msgs |-> msgs, evicted |-> FALSE,
     again |-> (last # NoRead /\ last.name = name)]

EmptyStore == [k \in {} |-> 0]

\* http.Error(w, text, code)
Error(code, text) == Resp(code, text, <<>>, <<>>, "")

\* http.Redirect(w, r, name, http.StatusSeeOther)
Redirect(name, csp) == Resp(303, "", <<>>, name, csp)

\* ------------------------------------------------------------------- store
EmptyRoomStamped == [msgs |-> <<>>, last |-> StartTime]

\* room{msgs: make([]msg, 0)}
EmptyRoom == [msgs |-> <<>>, last |-> ZeroTime]

Put(rs, name, rm) ==
    [k \in DOMAIN rs \cup {name} |-> IF k = name THEN rm ELSE rs[k]]

StaleLate(t, last) == t - last > lifespan + 1

StaleEarly(t, last) == t - last >= lifespan

StaleSkipZero(t, last) == last # ZeroTime /\ t - last > lifespan

\* time.Now().UTC().Sub(v.last) > lifespan
Stale(t, last) == t - last > lifespan

\* pruneRooms, with clock[k] the clock reading taken when room k is examined
pruneRooms(rs, clock) ==
    [k \in {n \in DOMAIN rs : ~Stale(clock[n], rs[n].last)} |-> rs[k]]

RoomFullOffByOne(rs) == Cardinality(DOMAIN rs) > maxRoomCount

RoomNeverFull(rs) == FALSE

\* len(rooms)+1 > maxRoomCount
RoomFull(rs) == Cardinality(DOMAIN rs) + 1 > maxRoomCount

tryCreateRoomInsertFirst(rs, name) ==
    IF name \notin DOMAIN rs
    THEN [ok |-> ~RoomFull(rs), rooms |-> Put(rs, name, EmptyRoom)]
    ELSE [ok |-> TRUE, rooms |-> rs]

tryCreateRoomReset(rs, name) ==
    IF name \notin DOMAIN rs /\ RoomFull(rs)
    THEN [ok |-> FALSE, rooms |-> rs]
    ELSE [ok |-> TRUE, rooms |-> Put(rs, name, EmptyRoom)]

\* tryCreateRoom: whether the room is there afterwards, and the store
tryCreateRoom(rs, name) ==
    IF name \notin DOMAIN rs
    THEN IF RoomFull(rs)
         THEN [ok |-> FALSE, rooms |-> rs]
         ELSE [ok |-> TRUE, rooms |-> Put(rs, name, EmptyRoom)]
    ELSE [ok |-> TRUE, rooms |-> rs]

\* printChat: the messages of rooms[name], none for a missing room
printChat(rs, name) == IF name \in DOMAIN rs THEN rs[name].msgs ELSE <<>>

NoDupScan(msgs, str) == FALSE

HasMsgHeadOnly(msgs, str) == msgs # <<>> /\ msgs[1].s = str

\* the duplicate scan of post
HasMsg(msgs, str) == \E i \in 1..Len(msgs) : msgs[i].s = str

AppendLast(m, msgs) == msgs \o <<m>>

\* append([]msg{{s, t}}, rm.msgs...)
Prepend(m, msgs) == <<m>> \o msgs

NoTruncate(msgs) == msgs

\* if len(rm.msgs) > maxMsgsCount { rm.msgs = rm.msgs[:maxMsgsCount] }
Truncate(msgs) ==
    IF Len(msgs) > maxMsgsCount THEN SubSeq(msgs, 1, maxMsgsCount) ELSE msgs

\* the text post stores for a raw form value
Normalize(raw) == EscapeString(TrimSpace(RemoveCR(raw)))

\* post, from the parsed form on: the store and the response it leaves
post(rs, name, form, t) ==
    LET str  == TrimSpace(RemoveCR(form.msg))
        esc  == EscapeString(str)
        made == tryCreateRoom(rs, name)
        rm   == made.rooms[name]
        new  == [msgs |-> Truncate(Prepend([s |-> esc, t |-> Format(t)], rm.msgs)),
                 last |-> t]
    IN  IF ~form.ok THEN [rooms |-> rs, resp |-> Error(400, "form invalid")]
        ELSE IF Len(form.msg) > maxMsgLen
        THEN [rooms |-> rs, resp |-> Error(400, "msg too long")]
        ELSE IF ~validMsg(str)
        THEN [rooms |-> rs, resp |-> Error(400, "bad msg")]
        ELSE IF str = <<>>
        THEN [rooms |-> rs, resp |-> Redirect(name, "")]
        ELSE IF ~made.ok
        THEN [rooms |-> made.rooms, resp |-> Error(400, "too many rooms")]
        ELSE IF HasMsg(rm.msgs, esc)
        THEN [rooms |-> made.rooms, resp |-> Redirect(name, "")]
        ELSE [rooms |-> Put(made.rooms, name, new),
              resp  |-> Redirect(name, "default-src 'none';")]

patchCreates(rs, name) == tryCreateRoom(rs, name).rooms

\* what patch leaves of the store
patchStore(rs, name) == rs

\* -------------------------------------------------------------------- Init
Init ==
    /\ rooms = EmptyStore
    /\ now = StartTime
    /\ lock = ""
    /\ pc = [p \in Handlers |-> "idle"]
    /\ req = [p \in Handlers |-> NoReq]
    /\ resp = [p \in Handlers |-> NoResp]
    /\ spc = "select"
    /\ snap = EmptyStore
    /\ lastRead = NoRead
    /\ proc = "running"

\* ----------------------------------------------------------------- actions
\* the wall clock advances
Tick ==
    /\ now < MaxTime
    /\ now' = now + 1
    /\ UNCHANGED <<proc, rooms, lock, pc, req, resp, spc, snap, lastRead>>

\* handler, up to lock.Lock(): the verb and the name are checked
Receive(p, method, name) ==
    /\ pc[p] = "idle"
    /\ IF method \notin {"GET", "PATCH", "POST"}
       THEN /\ resp' = [resp EXCEPT ![p] = Error(405, "bad http verb")]
            /\ req' = req
            /\ pc' = [pc EXCEPT ![p] = "done"]
       ELSE IF Len(name) > maxNameLen
       THEN /\ resp' = [resp EXCEPT ![p] = Error(400, "name too long")]
            /\ req' = req
            /\ pc' = [pc EXCEPT ![p] = "done"]
       ELSE IF ~validName(name)
       THEN /\ resp' = [resp EXCEPT ![p] = Error(400, "bad name")]
            /\ req' = req
            /\ pc' = [pc EXCEPT ![p] = "done"]
       ELSE /\ resp' = resp
            /\ req' = [req EXCEPT ![p] =
                         [method |-> method, name |-> name, form |-> NoForm]]
            /\ pc' = [pc EXCEPT ![p] = "lock"]
    /\ UNCHANGED <<proc, rooms, now, lock, spc, snap, lastRead>>

AcquireNoWait(p) ==
    /\ pc[p] = "lock"
    /\ lock' = p
    /\ snap' = rooms
    /\ pc' = [pc EXCEPT ![p] =
                IF req[p].name = <<>> THEN "home"
                ELSE IF req[p].method = "GET" THEN "get"
                ELSE IF req[p].method = "PATCH" THEN "patch"
                ELSE "post"]
    /\ UNCHANGED <<proc, rooms, now, req, resp, spc, lastRead>>

\* lock.Lock() and the dispatch on the name and the verb
Acquire(p) ==
    /\ pc[p] = "lock"
    /\ lock = ""
    /\ lock' = p
    /\ snap' = rooms
    /\ pc' = [pc EXCEPT ![p] =
                IF req[p].name = <<>> THEN "home"
                ELSE IF req[p].method = "GET" THEN "get"
                ELSE IF req[p].method = "PATCH" THEN "patch"
                ELSE "post"]
    /\ UNCHANGED <<proc, rooms, now, req, resp, spc, lastRead>>

\* home: a redirect when the query names a room, else the list of rooms
Home(p, query) ==
    /\ pc[p] = "home"
    /\ resp' = [resp EXCEPT ![p] =
                  IF query # <<>> THEN Redirect(query, "")
                  ELSE Resp(200, "", <<>>, <<>>, "")]
    /\ pc' = [pc EXCEPT ![p] = "unlock"]
    /\ UNCHANGED <<proc, rooms, now, lock, req, spc, snap, lastRead>>

\* get, its pruneRooms(): the clock is read once per room and may advance
GetPrune(p) ==
    /\ pc[p] = "get"
    /\ \E end \in now..MaxTime :
         \E clock \in [DOMAIN rooms -> now..end] :
            /\ rooms' = pruneRooms(rooms, clock)
            /\ now' = end
    /\ lastRead' =
         IF lastRead # NoRead /\ lastRead.name \in DOMAIN rooms
                              /\ lastRead.name \notin DOMAIN rooms'
         THEN [lastRead EXCEPT !.evicted = TRUE]
         ELSE lastRead
    /\ pc' = [pc EXCEPT ![p] = "create"]
    /\ UNCHANGED <<proc, lock, req, resp, spc, snap>>

\* get, from tryCreateRoom on: the room page, or the capacity error
GetCreate(p) ==
    /\ pc[p] = "create"
    /\ LET made == tryCreateRoom(rooms, req[p].name)
       IN  /\ rooms' = made.rooms
           /\ IF made.ok
              THEN /\ resp' = [resp EXCEPT ![p] =
                         Resp(200, "", printChat(made.rooms, req[p].name), <<>>,
                              "default-src 'none';script-src 'self'; connect-src 'self'")]
                   /\ lastRead' = Read(lastRead, req[p].name,
                                        printChat(made.rooms, req[p].name))
              ELSE /\ resp' = [resp EXCEPT ![p] = Error(400, "too many rooms")]
                   /\ lastRead' = lastRead
    /\ pc' = [pc EXCEPT ![p] = "unlock"]
    /\ UNCHANGED <<proc, now, lock, req, spc, snap>>

\* patch: the messages as plain text
Patch(p) ==
    /\ pc[p] = "patch"
    /\ rooms' = patchStore(rooms, req[p].name)
    /\ resp' = [resp EXCEPT ![p] =
                  Resp(200, "", printChat(rooms', req[p].name), <<>>, "default-src 'none';")]
    /\ lastRead' = Read(lastRead, req[p].name, printChat(rooms', req[p].name))
    /\ pc' = [pc EXCEPT ![p] = "unlock"]
    /\ UNCHANGED <<proc, now, lock, req, spc, snap>>

\* post: the form is parsed, the message checked and stored
Post(p, form) ==
    /\ pc[p] = "post"
    /\ LET out == post(rooms, req[p].name, form, now)
       IN  /\ rooms' = out.rooms
           /\ resp' = [resp EXCEPT ![p] = out.resp]
    /\ req' = [req EXCEPT ![p].form = form]
    /\ lastRead' = NoRead
    /\ pc' = [pc EXCEPT ![p] = "unlock"]
    /\ UNCHANGED <<proc, now, lock, spc, snap>>

\* lock.Unlock() and the handler returns
Unlock(p) ==
    /\ pc[p] = "unlock"
    /\ lock' = ""
    /\ snap' = EmptyStore
    /\ pc' = [pc EXCEPT ![p] = "idle"]
    /\ req' = [req EXCEPT ![p] = NoReq]
    /\ resp' = [resp EXCEPT ![p] = NoResp]
    /\ UNCHANGED <<proc, rooms, now, spc, lastRead>>

\* a page written under the lock (fmt.Fprintf to w in home, get, printChat)
\* outgrows the response buffers and the write waits for the client to read
Stall(p) ==
    /\ pc[p] = "unlock"
    /\ resp[p].code = 200
    /\ pc' = [pc EXCEPT ![p] = "write"]
    /\ UNCHANGED <<proc, rooms, now, lock, req, resp, spc, snap, lastRead>>

\* the client reads and the blocked write returns
Drain(p) ==
    /\ pc[p] = "write"
    /\ pc' = [pc EXCEPT ![p] = "unlock"]
    /\ UNCHANGED <<proc, rooms, now, lock, req, resp, spc, snap, lastRead>>

\* a request rejected before the lock returns
Return(p) ==
    /\ pc[p] = "done"
    /\ pc' = [pc EXCEPT ![p] = "idle"]
    /\ req' = [req EXCEPT ![p] = NoReq]
    /\ resp' = [resp EXCEPT ![p] = NoResp]
    /\ UNCHANGED <<proc, rooms, now, lock, spc, snap, lastRead>>

\* the ticker goroutine: case <-ticker.C
TickerFire ==
    /\ spc = "select"
    /\ spc' = "lock"
    /\ UNCHANGED <<proc, rooms, now, lock, pc, req, resp, snap, lastRead>>

SweepAcquire ==
    /\ spc = "lock"
    /\ lock = ""
    /\ lock' = "sweep"
    /\ snap' = rooms
    /\ spc' = "prune"
    /\ UNCHANGED <<proc, rooms, now, pc, req, resp, lastRead>>

SweepPrune ==
    /\ spc = "prune"
    /\ \E end \in now..MaxTime :
         \E clock \in [DOMAIN rooms -> now..end] :
            /\ rooms' = pruneRooms(rooms, clock)
            /\ now' = end
    /\ lastRead' = NoRead
    /\ spc' = "unlock"
    /\ UNCHANGED <<proc, lock, pc, req, resp, snap>>

SweepUnlock ==
    /\ spc = "unlock"
    /\ lock' = ""
    /\ snap' = EmptyStore
    /\ spc' = "select"
    /\ UNCHANGED <<proc, rooms, now, pc, req, resp, lastRead>>

Next ==
    \/ Tick
    \/ \E p \in Handlers, r \in RequestInputs : Receive(p, r[1], r[2])
    \/ \E p \in Handlers : Acquire(p)
    \/ \E p \in Handlers, query \in {<<>>, <<"a">>} : Home(p, query)
    \/ \E p \in Handlers : GetPrune(p)
    \/ \E p \in Handlers : GetCreate(p)
    \/ \E p \in Handlers : Patch(p)
    \/ \E p \in Handlers, form \in FormInputs : Post(p, form)
    \/ \E p \in Handlers : Stall(p)
    \/ \E p \in Handlers : Drain(p)
    \/ \E p \in Handlers : Unlock(p)
    \/ \E p \in Handlers : Return(p)
    \/ TickerFire
    \/ SweepAcquire
    \/ SweepPrune
    \/ SweepUnlock

Spec == Init /\ [][Next]_vars

\* the requests and the forms of the runs checked for progress
LiveRequests ==
    {<<"GET", <<"a">>>>, <<"PATCH", <<"a">>>>, <<"POST", <<"a">>>>,
     <<"GET", <<>>>>, <<"PUT", <<"a">>>>}

LiveForms == {[ok |-> TRUE, msg |-> <<"a">>]}

NextLive ==
    \/ Tick
    \/ \E p \in Handlers, r \in LiveRequests : Receive(p, r[1], r[2])
    \/ \E p \in Handlers : Acquire(p)
    \/ \E p \in Handlers : Home(p, <<>>)
    \/ \E p \in Handlers : GetPrune(p)
    \/ \E p \in Handlers : GetCreate(p)
    \/ \E p \in Handlers : Patch(p)
    \/ \E p \in Handlers, form \in LiveForms : Post(p, form)
    \/ \E p \in Handlers : Stall(p)
    \/ \E p \in Handlers : Drain(p)
    \/ \E p \in Handlers : Unlock(p)
    \/ \E p \in Handlers : Return(p)
    \/ TickerFire
    \/ SweepAcquire
    \/ SweepPrune
    \/ SweepUnlock

\* the scheduling the runtime gives: a goroutine that can run does run, the
\* ticker fires every lifespan, and a goroutine waiting in lock.Lock() gets
\* the mutex once it is released often enough (sync.Mutex hands a waiter the
\* lock after 1ms of waiting).  Nothing makes a client send a request or read
\* a response, and the server sets no write timeout.  A page is a finite
\* number of writes, so a handler whose writes all return reaches Unlock.
Fairness ==
    /\ \A p \in Handlers :
         /\ SF_vars(Acquire(p))
         /\ WF_vars(Home(p, <<>>))
         /\ WF_vars(GetPrune(p))
         /\ WF_vars(GetCreate(p))
         /\ WF_vars(Patch(p))
         /\ WF_vars(\E form \in LiveForms : Post(p, form))
         /\ SF_vars(Unlock(p))
         /\ WF_vars(Return(p))
    /\ WF_vars(TickerFire)
    /\ SF_vars(SweepAcquire)
    /\ WF_vars(SweepPrune)
    /\ WF_vars(SweepUnlock)

SpecLive == Init /\ [][NextLive]_vars /\ Fairness

\* os.Interrupt is delivered: graceful.Graceful shuts the server down, which
\* stops accepting requests and lets the handlers in flight finish
Signal ==
    /\ proc = "running"
    /\ proc' = "signalled"
    /\ UNCHANGED <<rooms, now, lock, pc, req, resp, spc, snap, lastRead>>

\* graceful.Graceful returns and so does main: the process ends with its
\* goroutines wherever they are; nothing closes or sends on quit
Exit ==
    /\ proc = "signalled"
    /\ \A p \in Handlers : pc[p] = "idle"
    /\ proc' = "exited"
    /\ UNCHANGED <<rooms, now, lock, pc, req, resp, spc, snap, lastRead>>

\* the program from its start to the end of main
NextLife ==
    \/ Signal
    \/ Exit
    \/ proc = "running" /\ \E p \in Handlers, r \in LiveRequests : Receive(p, r[1], r[2])
    \/ proc # "exited" /\ Tick
    \/ proc # "exited" /\ \E p \in Handlers : Acquire(p)
    \/ proc # "exited" /\ \E p \in Handlers : Home(p, <<>>)
    \/ proc # "exited" /\ \E p \in Handlers : GetPrune(p)
    \/ proc # "exited" /\ \E p \in Handlers : GetCreate(p)
    \/ proc # "exited" /\ \E p \in Handlers : Patch(p)
    \/ proc # "exited" /\ \E p \in Handlers, form \in LiveForms : Post(p, form)
    \/ proc # "exited" /\ \E p \in Handlers : Stall(p)
    \/ proc # "exited" /\ \E p \in Handlers : Drain(p)
    \/ proc # "exited" /\ \E p \in Handlers : Unlock(p)
    \/ proc # "exited" /\ \E p \in Handlers : Return(p)
    \/ proc # "exited" /\ TickerFire
    \/ proc # "exited" /\ SweepAcquire
    \/ proc # "exited" /\ SweepPrune
    \/ proc # "exited" /\ SweepUnlock

\* the scheduling of Fairness while the process lives, and main returns once
\* the server is shut down
FairnessLife ==
    /\ \A p \in Handlers :
         /\ SF_vars(proc # "exited" /\ Acquire(p))
         /\ WF_vars(proc # "exited" /\ Home(p, <<>>))
         /\ WF_vars(proc # "exited" /\ GetPrune(p))
         /\ WF_vars(proc # "exited" /\ GetCreate(p))
         /\ WF_vars(proc # "exited" /\ Patch(p))
         /\ WF_vars(proc # "exited" /\ \E form \in LiveForms : Post(p, form))
         /\ SF_vars(proc # "exited" /\ Unlock(p))
         /\ WF_vars(proc # "exited" /\ Return(p))
    /\ WF_vars(proc # "exited" /\ TickerFire)
    /\ SF_vars(proc # "exited" /\ SweepAcquire)
    /\ WF_vars(proc # "exited" /\ SweepPrune)
    /\ WF_vars(proc # "exited" /\ SweepUnlock)
    /\ WF_vars(Exit)

SpecLife == Init /\ [][NextLife]_vars /\ FairnessLife

\* ------------------------------------------------------------- properties
Texts(msgs) == {msgs[i].s : i \in 1..Len(msgs)}

\* handler p holds the lock and has written its response
Served(p) == pc[p] = "unlock"

\* the POST served by p appended its message
Accepted(p) ==
    /\ Served(p)
    /\ req[p].method = "POST"
    /\ resp[p].code = 303
    /\ resp[p].csp # ""

\* the request served by p went through tryCreateRoom
ReachedCreate(p) ==
    /\ Served(p)
    /\ req[p].name # <<>>
    /\ \/ req[p].method = "GET"
       \/ /\ req[p].method = "POST"
          /\ resp[p].err \notin {"form invalid", "msg too long", "bad msg"}

\* this step is a pruneRooms() run: the one of a GET or the ticker's
SweepStep ==
    \/ \E p \in Handlers : pc[p] = "get" /\ pc'[p] = "create"
    \/ spc = "prune" /\ spc' = "unlock"

\* C1: every room's history holds at most maxMsgsCount messages, in every
\* reachable state.
C1_HistoryBound ==
    \A k \in DOMAIN rooms : Len(rooms[k].msgs) <= maxMsgsCount

\* an accepted append to a room that was already full left it full
C1_Witness ==
    \E p \in Handlers :
        /\ Accepted(p)
        /\ req[p].name \in DOMAIN snap
        /\ Len(snap[req[p].name].msgs) = maxMsgsCount
        /\ Len(rooms[req[p].name].msgs) = maxMsgsCount

\* C2: the store holds at most maxRoomCount rooms, in every reachable state.
C2_RoomBound == Cardinality(DOMAIN rooms) <= maxRoomCount

\* a creation was refused while the store was at its cap
C2_Witness ==
    \E p \in Handlers :
        /\ Served(p)
        /\ resp[p].err = "too many rooms"
        /\ Cardinality(DOMAIN rooms) = maxRoomCount

\* C3: no room's history holds two messages with the same text, also while
\* several POSTs for the same room are in flight.
C3_NoDuplicateText ==
    \A k \in DOMAIN rooms :
        \A i, j \in 1..Len(rooms[k].msgs) :
            rooms[k].msgs[i].s = rooms[k].msgs[j].s => i = j

\* a POST whose text is already in the room was served and stored nothing,
\* while another POST for the same room waits for the lock
C3_Witness ==
    \E p, q \in Handlers :
        /\ Served(p)
        /\ req[p].method = "POST"
        /\ resp[p].code = 303
        /\ resp[p].csp = ""
        /\ req[p].name \in DOMAIN snap
        /\ Normalize(req[p].form.msg) \in Texts(snap[req[p].name].msgs)
        /\ rooms = snap
        /\ pc[q] = "lock"
        /\ req[q].method = "POST"
        /\ req[q].name = req[p].name

\* C4: an accepted append (a valid POST whose text is not in the room's
\* history) leaves as history the first maxMsgsCount elements of the new
\* message followed by the previous history.
C4_PrependTruncate ==
    [][\A p \in Handlers :
         LET name == req[p].name
             old  == IF name \in DOMAIN rooms THEN rooms[name].msgs ELSE <<>>
             text == Normalize(req'[p].form.msg)
         IN  (/\ pc[p] = "post"
              /\ pc'[p] = "unlock"
              /\ resp'[p].code = 303
              /\ text \notin Texts(old))
             => /\ name \in DOMAIN rooms'
                /\ rooms'[name].msgs =
                     Take(<<[s |-> text, t |-> Format(now)]>> \o old, maxMsgsCount)]_vars

\* an accepted append to a full room: the new text leads, the former first
\* message follows, the former last one is gone
C4_Witness ==
    \E p \in Handlers :
        /\ Accepted(p)
        /\ req[p].name \in DOMAIN snap
        /\ Len(snap[req[p].name].msgs) = maxMsgsCount
        /\ rooms[req[p].name].msgs[1].s = Normalize(req[p].form.msg)
        /\ rooms[req[p].name].msgs[2] = snap[req[p].name].msgs[1]
        /\ snap[req[p].name].msgs[maxMsgsCount].s \notin Texts(rooms[req[p].name].msgs)

\* C5 as stated: a GET or POST that reaches create-or-get for a name not in
\* the store, served when the store held maxRoomCount rooms, is refused with
\* "too many rooms" and every room of before is still there with its history.
C5_Original ==
    \A p \in Handlers :
        (/\ ReachedCreate(p)
         /\ Cardinality(DOMAIN snap) = maxRoomCount
         /\ req[p].name \notin DOMAIN snap)
        => /\ resp[p].err = "too many rooms"
           /\ \A k \in DOMAIN snap :
                k \in DOMAIN rooms /\ rooms[k].msgs = snap[k].msgs

\* C5 amended: when tryCreateRoom runs for a name not in the store while the
\* store holds maxRoomCount rooms (for a GET: after the GET's own pruneRooms),
\* the request is refused with "too many rooms" and the store stays as it is.
C5_CapacityAtCreate ==
    [][\A p \in Handlers :
         (/\ pc[p] \in {"create", "post"}
          /\ pc'[p] = "unlock"
          /\ resp'[p].err \notin {"form invalid", "msg too long", "bad msg"}
          /\ Cardinality(DOMAIN rooms) = maxRoomCount
          /\ req[p].name \notin DOMAIN rooms)
         => /\ resp'[p].err = "too many rooms"
            /\ resp'[p].code = 400
            /\ rooms' = rooms]_vars

\* a GET of a new name was refused: its sweep left the store full
C5_Witness ==
    \E p \in Handlers :
        /\ Served(p)
        /\ req[p].method = "GET"
        /\ resp[p].err = "too many rooms"
        /\ Cardinality(DOMAIN rooms) = maxRoomCount
        /\ req[p].name \notin DOMAIN rooms
        /\ \A k \in DOMAIN rooms : rooms[k].msgs # <<>>

\* C6: a request refused with the capacity error leaves the store as it was
\* when the request took the lock.
C6_RefusalKeepsStore ==
    \A p \in Handlers :
        (Served(p) /\ resp[p].err = "too many rooms") => rooms = snap

\* a POST with a valid message for a new name was refused
C6_Witness ==
    \E p \in Handlers :
        /\ Served(p)
        /\ req[p].method = "POST"
        /\ resp[p].err = "too many rooms"
        /\ validMsg(TrimSpace(RemoveCR(req[p].form.msg)))
        /\ req[p].name \notin DOMAIN snap
        /\ snap # EmptyStore

\* C7 as stated: right after a pruneRooms() run, no room in the store is older
\* than lifespan at the time the run ends.
C7_Original ==
    [][SweepStep =>
         \A k \in DOMAIN rooms' : ~(now' - rooms'[k].last > lifespan)]_vars

\* C7 amended: right after a pruneRooms() run, no room in the store was older
\* than lifespan at the time the run started.
C7_SweepStart ==
    [][SweepStep =>
         \A k \in DOMAIN rooms' : ~(now - rooms'[k].last > lifespan)]_vars

\* the ticker's sweep removed a room that had messages
C7_Witness ==
    /\ spc = "unlock"
    /\ \E k \in DOMAIN snap : k \notin DOMAIN rooms /\ snap[k].msgs # <<>>

\* C8: a room is only ever removed when it is older than lifespan at the time
\* of the removal, and a pruneRooms() run leaves the rooms it keeps unchanged.
C8_OnlyStaleRemoved ==
    [][\A k \in DOMAIN rooms :
         /\ k \notin DOMAIN rooms' => now' - rooms[k].last > lifespan
         /\ (SweepStep /\ k \in DOMAIN rooms') => rooms'[k] = rooms[k]]_vars

\* the ticker's sweep kept a room whose last append is within lifespan
C8_Witness ==
    /\ spc = "unlock"
    /\ \E k \in DOMAIN rooms :
         /\ k \in DOMAIN snap
         /\ rooms[k] = snap[k]
         /\ rooms[k].msgs # <<>>
         /\ now - rooms[k].last <= lifespan

\* C9: a PATCH, of a name in the store or not, leaves the store as it was.
C9_PatchKeepsStore ==
    \A p \in Handlers :
        (Served(p) /\ req[p].method = "PATCH") => rooms = snap

\* a PATCH of a name that is not in the store was answered, next to a room
\* that has messages
C9_Witness ==
    \E p \in Handlers :
        /\ Served(p)
        /\ req[p].method = "PATCH"
        /\ resp[p].code = 200
        /\ req[p].name \notin DOMAIN rooms
        /\ \E k \in DOMAIN rooms : rooms[k].msgs # <<>>

\* p's step answers a read: the room page of a GET or the poll of a PATCH
ReadStep(p) ==
    /\ pc[p] \in {"create", "patch"}
    /\ pc'[p] = "unlock"
    /\ resp'[p].code = 200

\* C10 as stated: a read of the name the previous read was of, with no POST
\* and no ticker sweep since, returns the messages the previous read returned.
C10_Original ==
    [][\A p \in Handlers :
         (ReadStep(p) /\ lastRead # NoRead /\ lastRead.name = req[p].name)
         => resp'[p].msgs = lastRead.msgs]_vars

\* C10 amended: the same, when moreover no GET's own pruneRooms() has removed
\* the room since the previous read.
C10_NoEviction ==
    [][\A p \in Handlers :
         (ReadStep(p) /\ lastRead # NoRead /\ lastRead.name = req[p].name
                      /\ ~lastRead.evicted)
         => resp'[p].msgs = lastRead.msgs]_vars

\* a GET answered with messages, right after another read of the same room
C10_Witness ==
    \E p \in Handlers :
        /\ Served(p)
        /\ req[p].method = "GET"
        /\ resp[p].code = 200
        /\ lastRead.again
        /\ lastRead.name = req[p].name
        /\ resp[p].msgs = lastRead.msgs
        /\ resp[p].msgs # <<>>

\* the characters of a string
Texts1(str) == {str[i] : i \in 1..Len(str)}

\* the form passes the checks post makes before it touches the store
PassesChecks(form) ==
    /\ form.ok
    /\ Len(form.msg) <= maxMsgLen
    /\ TrimSpace(RemoveCR(form.msg)) # <<>>
    /\ \A c \in Texts1(TrimSpace(RemoveCR(form.msg))) : c \notin {"\t", "\n"}

\* C11: a POST that passes validation and whose normalized text is already in
\* the room's history leaves the whole store as it was and is answered with
\* the redirect to the room (303, Location the room) of an accepted append.
C11_DuplicateIsNoOp ==
    \A p \in Handlers :
        (/\ Served(p)
         /\ req[p].method = "POST"
         /\ PassesChecks(req[p].form)
         /\ req[p].name \in DOMAIN snap
         /\ Normalize(req[p].form.msg) \in Texts(snap[req[p].name].msgs))
        => /\ rooms = snap
           /\ resp[p].code = Redirect(req[p].name, "default-src 'none';").code
           /\ resp[p].loc = req[p].name

\* a POST repeating the older of a room's two messages was served
C11_Witness ==
    \E p \in Handlers :
        /\ Served(p)
        /\ req[p].method = "POST"
        /\ PassesChecks(req[p].form)
        /\ req[p].name \in DOMAIN snap
        /\ Len(snap[req[p].name].msgs) = 2
        /\ snap[req[p].name].msgs[2].s = Normalize(req[p].form.msg)
        /\ rooms = snap
        /\ resp[p].code = 303

\* the goroutines between lock.Lock() and lock.Unlock()
InStore ==
    {p \in Handlers : pc[p] \in {"home", "get", "create", "patch", "post", "write", "unlock"}}
        \cup (IF spc \in {"prune", "unlock"} THEN {"sweep"} ELSE {})

\* C14: at most one of the handlers and the ticker sweep is inside its store
\* section at any time, it is the lock holder, and while a handler is inside
\* its section the store changes only by that handler's own steps.
C14_MutualExclusion ==
    /\ [](Cardinality(InStore) <= 1 /\ \A x \in InStore : lock = x)
    /\ [][\A p \in Handlers :
            (p \in InStore /\ rooms' # rooms) => pc'[p] # pc[p]]_vars

\* a POST is inside its store section while another POST for the same room
\* and the ticker sweep wait for the lock
C14_Witness ==
    \E p, q \in Handlers :
        /\ pc[p] = "post"
        /\ lock = p
        /\ pc[q] = "lock"
        /\ req[q].method = "POST"
        /\ req[q].name = req[p].name
        /\ spc = "lock"

\* C17 amended: a room's last is the zero time exactly when its history is empty; the
\* first message of a non-empty history carries last, formatted; and last
\* changes only by an accepted append to that room, which sets it to the time
\* of the append.
C17_LastActivity ==
    [][/\ \A k \in DOMAIN rooms' :
            /\ rooms'[k].last = ZeroTime <=> rooms'[k].msgs = <<>>
            /\ rooms'[k].msgs # <<>> => rooms'[k].msgs[1].t = Format(rooms'[k].last)
       /\ \A k \in DOMAIN rooms' :
            (k \notin DOMAIN rooms \/ rooms'[k].last # rooms[k].last)
            => \/ rooms'[k] = [msgs |-> <<>>, last |-> ZeroTime]
               \/ \E p \in Handlers :
                    /\ pc[p] = "post"
                    /\ pc'[p] = "unlock"
                    /\ req[p].name = k
                    /\ resp'[p].csp # ""
                    /\ rooms'[k].last = now
                    /\ rooms'[k].msgs[1].s = Normalize(req'[p].form.msg)]_vars

\* C17 as stated: a room's last is the zero time exactly when its history is
\* empty, and else equals the timestamp the first message carries.
C17_Original ==
    \A k \in DOMAIN rooms :
        /\ rooms[k].last = ZeroTime <=> rooms[k].msgs = <<>>
        /\ rooms[k].msgs # <<>> => rooms[k].msgs[1].t = rooms[k].last

\* a second append to a room was accepted, at a later time than the first
C17_Witness ==
    \E p \in Handlers :
        /\ Accepted(p)
        /\ req[p].name \in DOMAIN snap
        /\ snap[req[p].name].msgs # <<>>
        /\ snap[req[p].name].last < now
        /\ rooms[req[p].name].last = now
        /\ snap[req[p].name].msgs[1].t # rooms[req[p].name].msgs[1].t

\* C18: every pruneRooms() run, the ticker's or a GET's, removes every room
\* whose last is the zero time (created by a GET, never appended to).
C18_EmptyRoomSwept ==
    [][SweepStep =>
         \A k \in DOMAIN rooms : rooms[k].last = ZeroTime => k \notin DOMAIN rooms']_vars

\* a GET of another room has swept a room that a GET had created at the
\* same clock time
C18_Witness ==
    \E p \in Handlers :
        /\ pc[p] = "create"
        /\ now = StartTime
        /\ \E k \in DOMAIN snap :
             /\ snap[k] = [msgs |-> <<>>, last |-> ZeroTime]
             /\ k # req[p].name
             /\ k \notin DOMAIN rooms

\* C19: a POST whose form is unparsable, or whose message is longer than
\* maxMsgLen, or, once carriage returns are stripped and it is trimmed, is
\* empty or holds a non-printable character, leaves the store as it was; and
\* no stored message has empty text.
C19_InvalidPostIsNoOp ==
    /\ \A p \in Handlers :
         (Served(p) /\ req[p].method = "POST" /\ ~PassesChecks(req[p].form))
         => rooms = snap
    /\ \A k \in DOMAIN rooms :
         \A i \in 1..Len(rooms[k].msgs) : rooms[k].msgs[i].s # <<>>

\* a POST of blanks for a room that is not in the store was refused
C19_Witness ==
    \E p \in Handlers :
        /\ Served(p)
        /\ req[p].method = "POST"
        /\ req[p].form.ok
        /\ req[p].form.msg # <<>>
        /\ TrimSpace(RemoveCR(req[p].form.msg)) = <<>>
        /\ req[p].name \notin DOMAIN rooms
        /\ resp[p].code = 400

\* the stored texts
Stored == UNION {Texts(rooms[k].msgs) : k \in DOMAIN rooms}

\* the length of the text whose html escape is str: an entity counts once
RECURSIVE RawLen(_)
RawLen(str) ==
    IF str = <<>> THEN 0
    ELSE IF Head(str) = "&"
    THEN LET semi == CHOOSE i \in 1..Len(str) :
                        str[i] = ";" /\ \A j \in 1..(i - 1) : str[j] # ";"
         IN  1 + RawLen(SubSeq(str, semi + 1, Len(str)))
    ELSE 1 + RawLen(Tail(str))

\* C20 as stated: every stored message text has length at most maxMsgLen.
C20_Original == \A str \in Stored : Len(str) <= maxMsgLen

\* C20 amended: every stored message text is the html escape of a text of
\* at most maxMsgLen characters, so it has at most 5 * maxMsgLen characters.
C20_EscapedLength ==
    \A str \in Stored : RawLen(str) <= maxMsgLen /\ Len(str) <= 5 * maxMsgLen

\* a stored text is longer than maxMsgLen
C20_Witness == \E str \in Stored : Len(str) > maxMsgLen /\ RawLen(str) <= maxMsgLen

\* C15: no handler is blocked writing its response while it holds the lock.
C15_NoWriteUnderLock ==
    \A p \in Handlers : ~(pc[p] = "write" /\ lock = p)

\* the names a room of the model can have
RoomNames == {r[2] : r \in LiveRequests} \ {<<>>}

\* C12: a room whose last activity is older than lifespan is eventually
\* removed, unless a message is appended to it.
C12_StaleRoomRemoved ==
    \A k \in RoomNames :
        (k \in DOMAIN rooms /\ Stale(now, rooms[k].last))
        ~> (k \notin DOMAIN rooms \/ ~Stale(now, rooms[k].last))

\* the lock is held only by a handler between lock.Lock() and lock.Unlock(),
\* or by the sweep between its lock.Lock() and lock.Unlock()
C16_HeldOnlyInside ==
    /\ \A p \in Handlers : pc[p] \in {"idle", "lock", "done"} => lock # p
    /\ spc \in {"select", "lock"} => lock # "sweep"

\* C16: every handler and every sweep tick waiting in lock.Lock() eventually
\* holds the lock.
C16_WaiterAcquires ==
    /\ \A p \in Handlers : (pc[p] = "lock") ~> (lock = p)
    /\ (spc = "lock") ~> (lock = "sweep")

\* the sweep goroutine is inside an iteration of its loop
InSweep == spc \in {"lock", "prune", "unlock"}

\* C13: once the shutdown signal is received the sweep loop eventually stops
\* (the loop has no way out but the end of the process), and a sweep
\* iteration that has started runs to completion: it is not cut by the end
\* of the process.
C13_SweepCancellable ==
    /\ (proc = "signalled") ~> (proc = "exited")
    /\ [][(InSweep /\ proc # "exited") => proc' # "exited"]_vars

====
